---------------------------- MODULE Spec2Model ----------------------------
(***************************************************************************)
(* Model of the SendTokens component (src/src/components/send-tokens.tsx)  *)
(* of the LazorKit passkey demo: the form state, the handleSend handler    *)
(* with its validation, instruction building and adapter call, and the     *)
(* number arithmetic (parseFloat, IEEE-754 double multiplication,          *)
(* Math.floor) that turns the amount string into base units.               *)
(*                                                                         *)
(* Strings that are parsed character by character (the amount) are         *)
(* sequences of one-character strings; addresses are opaque strings that   *)
(* the PublicKey constructor either accepts or rejects.                    *)
(***************************************************************************)
EXTENDS Integers, Sequences, FiniteSets, TLC

(***************************************************************************)
(* Unsigned big integers.  The 53-bit significands of JavaScript numbers   *)
(* do not fit a 32-bit integer, so they are kept as little-endian bit      *)
(* sequences (b[1] is the least significant bit, no zero at the top) where *)
(* they are rounded, and as little-endian sequences of 15-bit limbs where  *)
(* they are multiplied and divided.                                        *)
(***************************************************************************)
LimbBits == 15

RECURSIVE Pow2(_)
Pow2(n) == IF n = 0 THEN 1 ELSE 2 * Pow2(n - 1)

LimbBase == Pow2(LimbBits)

RECURSIVE Pow10(_)
Pow10(k) == IF k = 0 THEN 1 ELSE 10 * Pow10(k - 1)

Zeros(n) == [i \in 1..n |-> 0]

\* drop the zeros at the top of a bit or limb sequence
Trim(b) ==
    IF \A i \in 1..Len(b) : b[i] = 0 THEN <<>>
    ELSE LET top == CHOOSE i \in 1..Len(b) :
                        b[i] # 0 /\ \A j \in (i + 1)..Len(b) : b[j] = 0
         IN  SubSeq(b, 1, top)

RECURSIVE NatToBits(_)
NatToBits(n) == IF n = 0 THEN <<>> ELSE <<n % 2>> \o NatToBits(n \div 2)

RECURSIVE BitsToNat(_)
BitsToNat(b) == IF b = <<>> THEN 0 ELSE Head(b) + 2 * BitsToNat(Tail(b))

BitAt(b, i) == IF i >= 1 /\ i <= Len(b) THEN b[i] ELSE 0

BitsToLimbs(b) ==
    [j \in 1..((Len(b) + LimbBits - 1) \div LimbBits) |->
        BitsToNat([t \in 1..LimbBits |-> BitAt(b, LimbBits * (j - 1) + t)])]

LimbsToBits(l) ==
    Trim([i \in 1..(LimbBits * Len(l)) |->
            (l[((i - 1) \div LimbBits) + 1] \div Pow2((i - 1) % LimbBits)) % 2])

ShiftRight(b, n) == IF n >= Len(b) THEN <<>> ELSE SubSeq(b, n + 1, Len(b))

ShiftLeft(b, n) == IF b = <<>> THEN <<>> ELSE Zeros(n) \o b

\* b + 1
Inc(b) ==
    IF \A i \in 1..Len(b) : b[i] = 1 THEN Zeros(Len(b)) \o <<1>>
    ELSE LET z == CHOOSE i \in 1..Len(b) :
                      b[i] = 0 /\ \A j \in 1..(i - 1) : b[j] = 1
         IN  [i \in 1..Len(b) |-> IF i < z THEN 0 ELSE IF i = z THEN 1 ELSE b[i]]

RECURSIVE MulLimbs(_, _, _)
\* l * c + carry for a factor c below the limb base
MulLimbs(l, c, carry) ==
    IF l = <<>> THEN (IF carry = 0 THEN <<>> ELSE <<carry>>)
    ELSE LET t == Head(l) * c + carry
         IN  <<t % LimbBase>> \o MulLimbs(Tail(l), c, t \div LimbBase)

RECURSIVE DivLimbs(_, _, _, _)
\* schoolbook division of l[1..i] by a divisor d below the limb base, top
\* limb first; rem is the remainder carried in from the limbs above
DivLimbs(l, d, i, rem) ==
    IF i = 0 THEN [q |-> <<>>, r |-> rem]
    ELSE LET t    == rem * LimbBase + l[i]
             rest == DivLimbs(l, d, i - 1, t % d)
         IN  [q |-> rest.q \o <<t \div d>>, r |-> rest.r]

RECURSIVE TimesPow10(_, _)
\* l * 10^k
TimesPow10(l, k) == IF k = 0 THEN l ELSE TimesPow10(MulLimbs(l, 10, 0), k - 1)

RECURSIVE OverPow10(_, _, _)
\* floor(l / 10^k), and whether anything was cut off (inexact so far or now)
OverPow10(l, k, inexact) ==
    IF k = 0 THEN [q |-> l, inexact |-> inexact]
    ELSE LET s == DivLimbs(l, 10, Len(l), 0)
         IN  OverPow10(s.q, k - 1, inexact \/ s.r # 0)

(***************************************************************************)
(* JavaScript numbers.  A number is NaN, a signed zero, or                 *)
(* (-1)^neg * m * 2^e with m a 53-bit significand (2^52 <= m < 2^53).      *)
(* Every operation rounds to nearest, ties to even, as IEEE-754 binary64   *)
(* does.  Subnormals and overflow to Infinity are outside the bounds used. *)
(***************************************************************************)
SignificandBits == 53

NaN == [cls |-> "nan"]

Zero(neg) == [cls |-> "zero", neg |-> neg]

\* x * 2^0 plus, when sticky, a fraction below one unit of x: the nearest
\* 53-bit significand m and the exponent t with x ~ m * 2^t
Round53(x, sticky0) ==
    LET L == Len(x) IN
    IF L <= SignificandBits
    THEN [m |-> Zeros(SignificandBits - L) \o x, t |-> L - SignificandBits]
    ELSE LET t      == L - SignificandBits
             m0     == SubSeq(x, t + 1, L)
             half   == x[t] = 1
             sticky == sticky0 \/ \E i \in 1..(t - 1) : x[i] = 1
             up     == half /\ (sticky \/ m0[1] = 1)
             m1     == IF up THEN Inc(m0) ELSE m0
         IN  IF Len(m1) > SignificandBits
             THEN [m |-> Tail(m1), t |-> t + 1]
             ELSE [m |-> m1, t |-> t]

\* a decimal significand is scaled by 2^(LimbBits * ParseLimbs) before it is
\* divided by the power of ten, so that the quotient has more than 54 bits
ParseLimbs == 7

\* the number nearest to (-1)^neg * digits / 10^k
DecimalToNumber(neg, digits, k) ==
    IF digits = 0 THEN Zero(neg)
    ELSE LET scaled == Zeros(ParseLimbs) \o BitsToLimbs(NatToBits(digits))
             d      == OverPow10(scaled, k, FALSE)
             r      == Round53(LimbsToBits(d.q), d.inexact)
         IN  [cls |-> "num", neg |-> neg, m |-> r.m,
              e |-> r.t - LimbBits * ParseLimbs]

\* x * 10^k for a power of ten that is itself exactly a number (10^6, 10^9):
\* the exact product, rounded once
NumberTimesPow10(x, k) ==
    IF x.cls # "num" THEN x
    ELSE LET r == Round53(LimbsToBits(TimesPow10(BitsToLimbs(x.m), k)), FALSE)
         IN  [cls |-> "num", neg |-> x.neg, m |-> r.m, e |-> x.e + r.t]

\* x <= 0 as JavaScript compares: false for NaN
NumberLeqZero(x) == x.cls = "zero" \/ (x.cls = "num" /\ x.neg)

\* Math.floor of a number that is NaN or not negative
MathFloor(x) ==
    IF x.cls # "num" THEN x
    ELSE IF x.e >= 0 THEN x
    ELSE LET i == ShiftRight(x.m, 0 - x.e)
         IN  IF i = <<>> THEN Zero(FALSE)
             ELSE LET r == Round53(i, FALSE)
                  IN  [cls |-> "num", neg |-> x.neg, m |-> r.m, e |-> r.t]

\* BigInt(x) of a number: throws a RangeError unless x is an integer
BigIntThrows(x) ==
    \/ x.cls = "nan"
    \/ /\ x.cls = "num"
       /\ x.e < 0
       /\ \E i \in 1..(0 - x.e) : i <= Len(x.m) /\ x.m[i] = 1

\* the integer a non-negative integral number stands for
NumberToNat(x) ==
    IF x.cls # "num" THEN 0
    ELSE IF x.e >= 0 THEN BitsToNat(ShiftLeft(Trim(x.m), x.e))
    ELSE BitsToNat(ShiftRight(x.m, 0 - x.e))

(***************************************************************************)
(* Amount strings, character by character.                                 *)
(***************************************************************************)
Digits == {"0", "1", "2", "3", "4", "5", "6", "7", "8", "9"}

DigitValue(c) ==
    CASE c = "0" -> 0 [] c = "1" -> 1 [] c = "2" -> 2 [] c = "3" -> 3
      [] c = "4" -> 4 [] c = "5" -> 5 [] c = "6" -> 6 [] c = "7" -> 7
      [] c = "8" -> 8 [] c = "9" -> 9

RECURSIVE DigitRun(_, _)
\* how many digits s has from position i on
DigitRun(s, i) ==
    IF i <= Len(s) /\ s[i] \in Digits THEN 1 + DigitRun(s, i + 1) ELSE 0

RECURSIVE DigitsValue(_)
DigitsValue(ds) ==
    IF ds = <<>> THEN 0
    ELSE 10 * DigitsValue(SubSeq(ds, 1, Len(ds) - 1)) + DigitValue(ds[Len(ds)])

\* where the sign, the integer digits, the point and the fraction digits of
\* the longest numeric prefix of s lie
NumericPrefix(s) ==
    LET signed == Len(s) >= 1 /\ s[1] \in {"+", "-"}
        start  == IF signed THEN 2 ELSE 1
        ni     == DigitRun(s, start)
        dot    == start + ni <= Len(s) /\ s[start + ni] = "."
        nf     == IF dot THEN DigitRun(s, start + ni + 1) ELSE 0
    IN  [neg |-> signed /\ s[1] = "-", plus |-> signed /\ s[1] = "+",
         start |-> start, ni |-> ni, dot |-> dot, nf |-> nf,
         end |-> start + ni + (IF dot THEN 1 + nf ELSE 0) - 1]

\* parseFloat(s): the number of the longest prefix that is a decimal literal,
\* NaN when there is none.  (Leading white space, exponents and "Infinity"
\* do not occur in the strings used here.)
parseFloat(s) ==
    LET p == NumericPrefix(s) IN
    IF p.ni = 0 /\ p.nf = 0 THEN NaN
    ELSE DecimalToNumber(p.neg,
            DigitsValue(SubSeq(s, p.start, p.start + p.ni - 1)
                        \o SubSeq(s, p.start + p.ni + 1, p.start + p.ni + p.nf)),
            p.nf)

\* <input type="number">: the value handed to onChange is the typed text when
\* that is a valid floating-point number (optional "-", digits, optionally a
\* point followed by digits) and the empty string otherwise
NumberInputValue(typed) ==
    LET p == NumericPrefix(typed) IN
    IF /\ typed # <<>>
       /\ ~p.plus
       /\ p.end = Len(typed)
       /\ (p.ni > 0 \/ p.nf > 0)
       /\ (p.dot => p.nf > 0)
    THEN typed ELSE <<>>

(***************************************************************************)
(* Addresses.  new PublicKey(text) accepts exactly the base58 texts of 32  *)
(* bytes; a key is on the ed25519 curve (a keypair's address) or off it (a *)
(* program-derived address).  A key is written as its base58 text.         *)
(***************************************************************************)
NULL == "<null>"

OnCurveAddresses == {"WalletA", "WalletB"}

OffCurveAddresses == {"PdaC"}

ValidAddresses == OnCurveAddresses \cup OffCurveAddresses

\* new PublicKey(text) throws
PublicKeyThrows(text) == text \notin ValidAddresses

\* new PublicKey(text) when it does not throw
PublicKey(text) == text

USDC_MINT == "4zMMC9srt5Ri5X14GAgXhaHii3GnPAEERYPJgZJDncDU"

USDC_DECIMALS == 6

\* LAMPORTS_PER_SOL is 10^9
LAMPORTS_PER_SOL_DIGITS == 9

\* getAssociatedTokenAddress(mint, owner) with allowOwnerOffCurve left at its
\* default false: rejects with TokenOwnerOffCurveError for an off-curve owner
getAssociatedTokenAddressThrows(mint, owner) == owner \notin OnCurveAddresses

\* getAssociatedTokenAddress(mint, owner): the address derived from both
getAssociatedTokenAddress(mint, owner) == "ata(" \o owner \o "," \o mint \o ")"

(***************************************************************************)
(* Instructions.                                                           *)
(***************************************************************************)
\* SystemProgram.transfer({fromPubkey, toPubkey, lamports})
SystemProgramTransfer(fromPubkey, toPubkey, lamports) ==
    [program |-> "System", kind |-> "Transfer",
     fromPubkey |-> fromPubkey, toPubkey |-> toPubkey, lamports |-> lamports]

\* createAssociatedTokenAccountIdempotentInstruction(payer, ata, owner, mint)
createAssociatedTokenAccountIdempotentInstruction(payer, ata, owner, mint) ==
    [program |-> "AssociatedToken", kind |-> "CreateIdempotent",
     payer |-> payer, associatedToken |-> ata, owner |-> owner, mint |-> mint]

\* createTransferInstruction(source, destination, owner, amount)
createTransferInstruction(source, destination, owner, amt) ==
    [program |-> "Token", kind |-> "Transfer",
     source |-> source, destination |-> destination, owner |-> owner,
     amount |-> amt]

\* Math.floor(parseFloat(amount) * 10^decimals), a number
BaseUnits(amt, decimals) ==
    MathFloor(NumberTimesPow10(parseFloat(amt), decimals))

\* SolInstructions with source and destination exchanged
SolInstructionsSwapped(sender, rcp, amt) ==
    << SystemProgramTransfer(PublicKey(rcp), sender,
           NumberToNat(BaseUnits(amt, LAMPORTS_PER_SOL_DIGITS))) >>

\* the instruction list of the SOL branch of handleSend
SolInstructions(sender, rcp, amt) ==
    << SystemProgramTransfer(sender, PublicKey(rcp),
           NumberToNat(BaseUnits(amt, LAMPORTS_PER_SOL_DIGITS))) >>

\* UsdcInstructions with the transfer pushed before the account creation
UsdcInstructionsTransferFirst(sender, rcp, amt) ==
    LET recipientPubkey    == PublicKey(rcp)
        sourceAccount      == getAssociatedTokenAddress(USDC_MINT, sender)
        destinationAccount == getAssociatedTokenAddress(USDC_MINT, recipientPubkey)
        amountBigInt       == NumberToNat(BaseUnits(amt, USDC_DECIMALS))
    IN  << createTransferInstruction(
               sourceAccount, destinationAccount, sender, amountBigInt),
           createAssociatedTokenAccountIdempotentInstruction(
               sender, destinationAccount, recipientPubkey, USDC_MINT) >>

\* UsdcInstructions creating the sender's own token account, not the
\* recipient's
UsdcInstructionsCreatesSource(sender, rcp, amt) ==
    LET recipientPubkey    == PublicKey(rcp)
        sourceAccount      == getAssociatedTokenAddress(USDC_MINT, sender)
        destinationAccount == getAssociatedTokenAddress(USDC_MINT, recipientPubkey)
        amountBigInt       == NumberToNat(BaseUnits(amt, USDC_DECIMALS))
    IN  << createAssociatedTokenAccountIdempotentInstruction(
               sender, sourceAccount, recipientPubkey, USDC_MINT),
           createTransferInstruction(
               sourceAccount, destinationAccount, sender, amountBigInt) >>

\* the instruction list of the USDC branch of handleSend
UsdcInstructions(sender, rcp, amt) ==
    LET recipientPubkey    == PublicKey(rcp)
        sourceAccount      == getAssociatedTokenAddress(USDC_MINT, sender)
        destinationAccount == getAssociatedTokenAddress(USDC_MINT, recipientPubkey)
        amountBigInt       == NumberToNat(BaseUnits(amt, USDC_DECIMALS))
    IN  << createAssociatedTokenAccountIdempotentInstruction(
               sender, destinationAccount, recipientPubkey, USDC_MINT),
           createTransferInstruction(
               sourceAccount, destinationAccount, sender, amountBigInt) >>

(***************************************************************************)
(* The inputs: what the user can type or select, what the wallet adapter   *)
(* can report and return.                                                  *)
(***************************************************************************)
TokenTypes == {"SOL", "USDC"}

TypedAmounts ==
    { <<>>, <<"0">>, <<"-", "1">>, <<"1", ".", "5">>, <<"2", ".", "0", "1">>,
      <<"a", "b", "c">> }

TypedRecipients == {"", "not-an-address", "WalletB", "PdaC"}

\* smartWalletPubkey as useTypedWallet can derive it
SenderKeys == {NULL, "WalletA", "PdaC"}

\* what signAndSendTransaction can resolve with
Signatures == {"sig1", "sig2"}

\* what signAndSendTransaction can reject with: an Error or something else
Rejections ==
    { [isError |-> TRUE, message |-> "User cancelled"],
      [isError |-> FALSE, message |-> "n/a"] }

\* the onTransactionSuccess prop: absent, or the refresh of useBalance
NoCallback == "<none>"

CallbackProps == {NoCallback, "refreshBalance"}

\* the number of clicks on the send button a behaviour has at most
MaxSubmissions == 2

(***************************************************************************)
(* State of a rendered SendTokens component, and of the useBalance hook of *)
(* the page that renders it.                                               *)
(***************************************************************************)
VARIABLES
    token,              \* useState<TokenType>("SOL")
    amount,             \* useState("")
    recipient,          \* useState("")
    status,             \* useState<TransactionStatus>("idle")
    signature,          \* useState<string | null>(null)
    error,              \* useState<string | null>(null)
    txHistory,          \* useState<TransactionRecord[]>([])
    smartWalletPubkey,  \* from useTypedWallet()
    runs,               \* the handleSend invocations that have not returned
    nsub,               \* how often handleSend has been invoked
    nsucc,              \* how often handleSend has reached its success path
    adapterReply,       \* what signAndSendTransaction settled with last
    onTransactionSuccess, \* the prop of SendTokens
    timers,             \* the setTimeout callbacks that have not run yet
    refreshCalls,       \* how often a timer has called onTransactionSuccess
    publicKeyString,    \* useBalance: publicKey?.toBase58() ?? null
    state,              \* useBalance: useState<BalanceState>
    fetches,            \* the fetchBalances invocations that have not returned
    nfetch,             \* how often the page has asked for the balances
    fetchOutcome,       \* how the fetchBalances that returned last ended
    publicKey,          \* Home: the walletPubkey object of the last render
    effectRuns,         \* how often the effect of useBalance has run
    sdkSmartWalletPubkey, \* useTypedWallet: walletHook.smartWalletPubkey
    smartWalletAddress, \* useTypedWallet: walletHook.wallet?.smartWallet
    isConnected,        \* useWallet(): a session is open
    isConnecting,       \* useWallet(): connect() is under way
    connectError,       \* ConnectWallet: useState<string | null>(null)
    connectCalls,       \* the connect() and disconnect() calls not settled
    nconnect,           \* how often handleConnect or handleDisconnect ran
    connectReply,       \* what connect() or disconnect() settled with last
    message,            \* SignMessage: useState("")
    signSignature,      \* SignMessage: useState<string | null>(null)
    isExpanded,         \* SignMessage: useState(false)
    isSigning,          \* SignMessage: useState(false)
    signError,          \* SignMessage: useState<string | null>(null)
    signCalls,          \* the signMessage() calls that have not settled
    nsign,              \* how often handleSign has called signMessage
    signReply,          \* what signMessage() settled with last
    uncaught            \* the call sites whose exception left its handler

sendVars == <<token, amount, recipient, status, signature, error, txHistory,
              smartWalletPubkey, runs, nsub, nsucc, adapterReply,
              onTransactionSuccess>>

timerVars == <<timers, refreshCalls>>

balanceVars == <<publicKeyString, state, fetches, nfetch, fetchOutcome,
                 publicKey, effectRuns>>

walletVars == <<sdkSmartWalletPubkey, smartWalletAddress>>

connectVars == <<isConnected, isConnecting, connectError, connectCalls,
                 nconnect, connectReply>>

signVars == <<message, signSignature, isExpanded, isSigning, signError,
              signCalls, nsign, signReply>>

pageVars == <<connectVars, signVars>>

vars == <<sendVars, timerVars, balanceVars, walletVars, pageVars, uncaught>>

form == <<token, amount, recipient>>

\* no call of signAndSendTransaction has settled since the last click
NoReply == [kind |-> "none"]

\* a balance that has not been fetched: null
NullBalance == [cls |-> "null"]

\* the initial state of useBalance, and the one fetchBalances sets when
\* there is no public key
InitialBalanceState ==
    [solBalance |-> NullBalance, usdcBalance |-> NullBalance,
     isLoading |-> FALSE, error |-> NULL]

\* no fetchBalances has returned since the last one was started
NoOutcome == [kind |-> "none"]

\* walletPubkey of a page without a wallet: null
NullKey == [text |-> NULL, id |-> 0]

Init ==
    /\ token = "SOL"
    /\ amount = <<>>
    /\ recipient = ""
    /\ status = "idle"
    /\ signature = NULL
    /\ error = NULL
    /\ txHistory = <<>>
    /\ smartWalletPubkey \in SenderKeys
    /\ runs = <<>>
    /\ nsub = 0
    /\ nsucc = 0
    /\ adapterReply = NoReply
    /\ onTransactionSuccess \in CallbackProps
    /\ timers = <<>>
    /\ refreshCalls = 0
    /\ publicKeyString = NULL
    /\ state = InitialBalanceState
    /\ fetches = <<>>
    /\ nfetch = 0
    /\ fetchOutcome = NoOutcome
    /\ publicKey = NullKey
    /\ effectRuns = 1
    /\ sdkSmartWalletPubkey = smartWalletPubkey
    /\ smartWalletAddress = smartWalletPubkey
    /\ isConnected = FALSE
    /\ isConnecting = FALSE
    /\ connectError = NULL
    /\ connectCalls = <<>>
    /\ nconnect = 0
    /\ connectReply = NoReply
    /\ message = <<>>
    /\ signSignature = NULL
    /\ isExpanded = FALSE
    /\ isSigning = FALSE
    /\ signError = NULL
    /\ signCalls = <<>>
    /\ nsign = 0
    /\ signReply = NoReply
    /\ uncaught = {}

\* A handleSend invocation between its awaits of getAssociatedTokenAddress
\* runs on the microtask queue: no event handler runs before it has reached
\* the adapter call or its catch block.
MicrotaskPending == \E i \in 1..Len(runs) : runs[i].pc = "build"

\* isValidAddress(address)
isValidAddress(address) == ~PublicKeyThrows(address)

\* ValidationError without its recipient check
ValidationErrorNoRecipientCheck(sender, amt, rcp) ==
    IF sender = NULL THEN "Wallet not connected"
    ELSE IF amt = <<>> \/ NumberLeqZero(parseFloat(amt))
         THEN "Please enter a valid amount"
    ELSE NULL

\* ValidationError with the recipient checked before the amount
ValidationErrorRecipientFirst(sender, amt, rcp) ==
    IF sender = NULL THEN "Wallet not connected"
    ELSE IF rcp = "" \/ ~isValidAddress(rcp)
         THEN "Please enter a valid Solana address"
    ELSE IF amt = <<>> \/ NumberLeqZero(parseFloat(amt))
         THEN "Please enter a valid amount"
    ELSE NULL

\* ValidationError with an amount check that only rejects the empty string
ValidationErrorNoSignCheck(sender, amt, rcp) ==
    IF sender = NULL THEN "Wallet not connected"
    ELSE IF amt = <<>> THEN "Please enter a valid amount"
    ELSE IF rcp = "" \/ ~isValidAddress(rcp)
         THEN "Please enter a valid Solana address"
    ELSE NULL

\* the validation of handleSend: the message of the first check that fails,
\* NULL when all pass
ValidationError(sender, amt, rcp) ==
    IF sender = NULL THEN "Wallet not connected"
    ELSE IF amt = <<>> \/ NumberLeqZero(parseFloat(amt))
         THEN "Please enter a valid amount"
    ELSE IF rcp = "" \/ ~isValidAddress(rcp)
         THEN "Please enter a valid Solana address"
    ELSE NULL

\* disabled={status === "pending"} of the select and the two inputs
InputsDisabled == status = "pending"

\* SendDisabled without the test of the status
SendDisabledIgnoringStatus == amount = <<>> \/ recipient = ""

\* disabled={status === "pending" || !amount || !recipient} of the button
SendDisabled == status = "pending" \/ amount = <<>> \/ recipient = ""

\* CatchMessage of a catch block that shows the same text for every failure
CatchMessageGeneric(err) == "Transaction failed"

\* the catch block: err instanceof Error ? err.message : "Transaction failed"
CatchMessage(err) == IF err.isError THEN err.message ELSE "Transaction failed"

TokenOwnerOffCurveError == [isError |-> TRUE, message |-> ""]

RangeError ==
    [isError |-> TRUE,
     message |-> "The number NaN cannot be converted to a BigInt because it is not an integer"]

\* addToHistory that never drops a record
addToHistoryUnbounded(prev, sig, tokenType, amt) ==
    << [signature |-> sig, token |-> tokenType, amount |-> amt] >> \o prev

\* addToHistory that keeps the last four records of prev, not the first four
addToHistoryDropsSecond(prev, sig, tokenType, amt) ==
    << [signature |-> sig, token |-> tokenType, amount |-> amt] >>
        \o SubSeq(prev, IF Len(prev) < 4 THEN 1 ELSE Len(prev) - 3, Len(prev))

\* addToHistory: prev => [record, ...prev.slice(0, 4)]
addToHistory(prev, sig, tokenType, amt) ==
    << [signature |-> sig, token |-> tokenType, amount |-> amt] >>
        \o SubSeq(prev, 1, IF Len(prev) < 4 THEN Len(prev) ELSE 4)

\* StatusAfterEdit of a form that forgets a finished submission when edited
StatusAfterEditReset(st) == IF st \in {"success", "error"} THEN "idle" ELSE st

\* the status an edit of the form leaves: onChange sets the field only
StatusAfterEdit(st) == st

\* SendTrySites of a handleSend whose try starts at the adapter call
SendTrySitesAdapterOnly == {"signAndSendTransaction"}

\* the calls of handleSend that can throw or reject: each is inside its try
SendTrySites ==
    {"SystemProgram.transfer", "getAssociatedTokenAddress", "BigInt",
     "signAndSendTransaction"}

\* the calls of fetchBalances that can throw or reject: the outer try holds
\* all of them, the inner one the two of the token balance
FetchTrySites == {"getBalance", "getAssociatedTokenAddress", "getAccount"}

\* the calls of handleConnect and handleDisconnect, each in a try
ConnectTrySites == {"connect", "disconnect"}

\* the call of handleSign, in its try
SignTrySites == {"signMessage"}

\* what an exception raised at the site adds to the exceptions that leave
\* the handler: nothing when a try of the handler encloses the site
Escaping(trySites, site) == IF site \in trySites THEN {} ELSE {site}

-----------------------------------------------------------------------------
\* onChange of the token select
SetToken(t) ==
    /\ UNCHANGED <<walletVars, pageVars, uncaught>>
    /\ ~MicrotaskPending
    /\ ~InputsDisabled
    /\ token' = t
    /\ status' = StatusAfterEdit(status)
    /\ UNCHANGED <<amount, recipient, signature, error, txHistory,
                   smartWalletPubkey, runs, nsub, nsucc, adapterReply,
                   onTransactionSuccess, timerVars, balanceVars>>

\* onChange of the amount input
SetAmount(typed) ==
    /\ UNCHANGED <<walletVars, pageVars, uncaught>>
    /\ ~MicrotaskPending
    /\ ~InputsDisabled
    /\ amount' = NumberInputValue(typed)
    /\ status' = StatusAfterEdit(status)
    /\ UNCHANGED <<token, recipient, signature, error, txHistory,
                   smartWalletPubkey, runs, nsub, nsucc, adapterReply,
                   onTransactionSuccess, timerVars, balanceVars>>

\* onChange of the recipient input
SetRecipient(text) ==
    /\ UNCHANGED <<walletVars, pageVars, uncaught>>
    /\ ~MicrotaskPending
    /\ ~InputsDisabled
    /\ recipient' = text
    /\ status' = StatusAfterEdit(status)
    /\ UNCHANGED <<token, amount, signature, error, txHistory,
                   smartWalletPubkey, runs, nsub, nsucc, adapterReply,
                   onTransactionSuccess, timerVars, balanceVars>>

\* no value: undefined or null
Absent == NULL

\* the memo of useTypedWallet without its try around new PublicKey
smartWalletPubkeyMemoUnguarded(sdk, address) ==
    IF sdk # Absent THEN [throws |-> FALSE, value |-> sdk]
    ELSE IF address # Absent /\ address # ""
    THEN IF PublicKeyThrows(address)
         THEN [throws |-> TRUE, value |-> NULL]
         ELSE [throws |-> FALSE, value |-> PublicKey(address)]
    ELSE [throws |-> FALSE, value |-> NULL]

\* the memo of useTypedWallet that parses the address before it looks at
\* the key of the SDK
smartWalletPubkeyMemoAddressFirst(sdk, address) ==
    IF address # Absent /\ address # "" /\ ~PublicKeyThrows(address)
    THEN [throws |-> FALSE, value |-> PublicKey(address)]
    ELSE [throws |-> FALSE, value |-> sdk]

\* the memo of useTypedWallet: the key of the SDK when there is one, else
\* the parsed address string, else null; a failed parse is caught
smartWalletPubkeyMemo(sdk, address) ==
    IF sdk # Absent THEN [throws |-> FALSE, value |-> sdk]
    ELSE IF address # Absent /\ address # ""
    THEN IF PublicKeyThrows(address)
         THEN [throws |-> FALSE, value |-> NULL]
         ELSE [throws |-> FALSE, value |-> PublicKey(address)]
    ELSE [throws |-> FALSE, value |-> NULL]

\* the wallet hook of the SDK reports another key or another address: the
\* components render with the smartWalletPubkey useTypedWallet derives
WalletUpdate(sdk, address) ==
    /\ ~MicrotaskPending
    /\ <<sdk, address>> # <<sdkSmartWalletPubkey, smartWalletAddress>>
    /\ sdkSmartWalletPubkey' = sdk
    /\ smartWalletAddress' = address
    /\ LET memo == smartWalletPubkeyMemo(sdk, address) IN
       IF memo.throws
       THEN /\ uncaught' = uncaught \cup {"new PublicKey"}
            /\ UNCHANGED smartWalletPubkey
       ELSE /\ smartWalletPubkey' = memo.value
            /\ UNCHANGED uncaught
    /\ UNCHANGED <<token, amount, recipient, status, signature, error,
                   txHistory, runs, nsub, nsucc, adapterReply,
                   onTransactionSuccess, timerVars, balanceVars, pageVars>>

\* the wallet session changes: the SDK reports the key pk and its address
WalletChange(pk) == WalletUpdate(pk, pk)

\* a run of handleSend, with the values its closure captured
Run(pc, instructions, ataExists) ==
    [pc |-> pc, token |-> token, amount |-> amount, recipient |-> recipient,
     sender |-> smartWalletPubkey, instructions |-> instructions,
     ataExists |-> ataExists,
     callback |-> IF onTransactionSuccess = NoCallback THEN NoCallback
                  ELSE publicKeyString]

\* click on the send button: handleSend up to its first await
HandleSend ==
    /\ UNCHANGED <<walletVars, pageVars>>
    /\ ~MicrotaskPending
    /\ ~SendDisabled
    /\ nsub' = nsub + 1
    /\ signature' = NULL
    /\ adapterReply' = NoReply
    /\ UNCHANGED <<token, amount, recipient, txHistory, smartWalletPubkey,
                   nsucc, onTransactionSuccess, timerVars, balanceVars>>
    /\ LET invalid == ValidationError(smartWalletPubkey, amount, recipient) IN
       IF invalid # NULL
       THEN /\ error' = invalid
            /\ UNCHANGED <<status, runs, uncaught>>
       ELSE IF token = "SOL"
       THEN IF BigIntThrows(BaseUnits(amount, LAMPORTS_PER_SOL_DIGITS))
            THEN \* SystemProgram.transfer throws, caught in the same batch
                 /\ error' = CatchMessage(RangeError)
                 /\ status' = "error"
                 /\ uncaught' = uncaught
                        \cup Escaping(SendTrySites, "SystemProgram.transfer")
                 /\ UNCHANGED runs
            ELSE /\ error' = NULL
                 /\ status' = "pending"
                 /\ runs' = Append(runs,
                        Run("adapter",
                            SolInstructions(smartWalletPubkey, recipient, amount),
                            FALSE))
                 /\ UNCHANGED uncaught
       ELSE /\ error' = NULL
            /\ status' = "pending"
            /\ runs' = Append(runs, Run("build", <<>>, FALSE))
            /\ UNCHANGED uncaught

\* handleSend, USDC branch, from the first getAssociatedTokenAddress to the
\* call of signAndSendTransaction, or to the catch block when building throws
BuildUsdc(i, exists) ==
    /\ UNCHANGED <<walletVars, pageVars>>
    /\ i \in 1..Len(runs)
    /\ runs[i].pc = "build"
    /\ UNCHANGED <<token, amount, recipient, signature, txHistory,
                   smartWalletPubkey, nsub, nsucc, adapterReply,
                   onTransactionSuccess, timerVars, balanceVars>>
    /\ LET r == runs[i]
           offCurve ==
               \/ getAssociatedTokenAddressThrows(USDC_MINT, r.sender)
               \/ getAssociatedTokenAddressThrows(USDC_MINT, PublicKey(r.recipient))
           notInteger == BigIntThrows(BaseUnits(r.amount, USDC_DECIMALS))
       IN  IF offCurve \/ notInteger
           THEN /\ error' = CatchMessage(IF offCurve THEN TokenOwnerOffCurveError
                                                    ELSE RangeError)
                /\ status' = "error"
                /\ runs' = SubSeq(runs, 1, i - 1) \o SubSeq(runs, i + 1, Len(runs))
                /\ uncaught' = uncaught
                       \cup Escaping(SendTrySites,
                                     IF offCurve THEN "getAssociatedTokenAddress"
                                                 ELSE "BigInt")
           ELSE /\ runs' = [runs EXCEPT ![i] =
                       [r EXCEPT !.pc = "adapter",
                                 !.instructions =
                                     UsdcInstructions(r.sender, r.recipient, r.amount),
                                 !.ataExists = exists]]
                /\ UNCHANGED <<error, status, uncaught>>

\* TimersAfterSuccess of a success path that sets the timer twice
TimersAfterSuccessTwice(callback) ==
    IF callback = NoCallback THEN timers
    ELSE Append(Append(timers, callback), callback)

\* if (onTransactionSuccess) setTimeout(() => onTransactionSuccess(), 1000)
TimersAfterSuccess(callback) ==
    IF callback = NoCallback THEN timers ELSE Append(timers, callback)

\* AdapterResolve of a success path that leaves the recipient in the form
AdapterResolveKeepsRecipient(i, sig) ==
    /\ UNCHANGED <<walletVars, pageVars, uncaught>>
    /\ ~MicrotaskPending
    /\ i \in 1..Len(runs)
    /\ runs[i].pc = "adapter"
    /\ signature' = sig
    /\ status' = "success"
    /\ txHistory' = addToHistory(txHistory, sig, runs[i].token, runs[i].amount)
    /\ amount' = <<>>
    /\ runs' = SubSeq(runs, 1, i - 1) \o SubSeq(runs, i + 1, Len(runs))
    /\ timers' = TimersAfterSuccess(runs[i].callback)
    /\ nsucc' = nsucc + 1
    /\ adapterReply' = [kind |-> "resolved", value |-> sig]
    /\ UNCHANGED <<token, recipient, error, smartWalletPubkey, nsub,
                   onTransactionSuccess, refreshCalls, balanceVars>>

\* signAndSendTransaction resolves: handleSend after the await
AdapterResolve(i, sig) ==
    /\ UNCHANGED <<walletVars, pageVars, uncaught>>
    /\ ~MicrotaskPending
    /\ i \in 1..Len(runs)
    /\ runs[i].pc = "adapter"
    /\ signature' = sig
    /\ status' = "success"
    /\ txHistory' = addToHistory(txHistory, sig, runs[i].token, runs[i].amount)
    /\ amount' = <<>>
    /\ recipient' = ""
    /\ runs' = SubSeq(runs, 1, i - 1) \o SubSeq(runs, i + 1, Len(runs))
    /\ timers' = TimersAfterSuccess(runs[i].callback)
    /\ nsucc' = nsucc + 1
    /\ adapterReply' = [kind |-> "resolved", value |-> sig]
    /\ UNCHANGED <<token, error, smartWalletPubkey, nsub,
                   onTransactionSuccess, refreshCalls, balanceVars>>

\* AdapterReject of a catch block that records the failed transfer too
AdapterRejectRecording(i, err) ==
    /\ UNCHANGED <<walletVars, pageVars>>
    /\ ~MicrotaskPending
    /\ i \in 1..Len(runs)
    /\ runs[i].pc = "adapter"
    /\ error' = CatchMessage(err)
    /\ status' = "error"
    /\ txHistory' = addToHistory(txHistory, "", runs[i].token, runs[i].amount)
    /\ runs' = SubSeq(runs, 1, i - 1) \o SubSeq(runs, i + 1, Len(runs))
    /\ adapterReply' = [kind |-> "rejected", value |-> err]
    /\ uncaught' = uncaught \cup Escaping(SendTrySites, "signAndSendTransaction")
    /\ UNCHANGED <<token, amount, recipient, signature,
                   smartWalletPubkey, nsub, nsucc, onTransactionSuccess,
                   timerVars, balanceVars>>

\* signAndSendTransaction rejects: the catch block of handleSend
AdapterReject(i, err) ==
    /\ UNCHANGED <<walletVars, pageVars>>
    /\ ~MicrotaskPending
    /\ i \in 1..Len(runs)
    /\ runs[i].pc = "adapter"
    /\ error' = CatchMessage(err)
    /\ status' = "error"
    /\ runs' = SubSeq(runs, 1, i - 1) \o SubSeq(runs, i + 1, Len(runs))
    /\ adapterReply' = [kind |-> "rejected", value |-> err]
    /\ uncaught' = uncaught \cup Escaping(SendTrySites, "signAndSendTransaction")
    /\ UNCHANGED <<token, amount, recipient, signature, txHistory,
                   smartWalletPubkey, nsub, nsucc, onTransactionSuccess,
                   timerVars, balanceVars>>

\* fetchBalances that keeps the balances it has when there is no key
fetchBalancesKeepsBalances(pk) ==
    /\ fetchOutcome' = NoOutcome
    /\ IF pk = NULL
       THEN /\ state' = [state EXCEPT !.isLoading = FALSE, !.error = NULL]
            /\ UNCHANGED fetches
       ELSE /\ state' = [state EXCEPT !.isLoading = TRUE, !.error = NULL]
            /\ fetches' = Append(fetches,
                   [address |-> pk, pc |-> "getBalance",
                    solBalance |-> NullBalance, superseded |-> FALSE,
                    before |-> [solBalance |-> state.solBalance,
                                usdcBalance |-> state.usdcBalance]])

\* fetchBalances of useBalance, as the closure made for the key pk: up to
\* its first await
fetchBalances(pk) ==
    /\ fetchOutcome' = NoOutcome
    /\ IF pk = NULL
       THEN /\ state' = InitialBalanceState
            /\ UNCHANGED fetches
       ELSE /\ state' = [state EXCEPT !.isLoading = TRUE, !.error = NULL]
            /\ fetches' = Append(fetches,
                   [address |-> pk, pc |-> "getBalance",
                    solBalance |-> NullBalance, superseded |-> FALSE,
                    before |-> [solBalance |-> state.solBalance,
                                usdcBalance |-> state.usdcBalance]])

\* a timer set by the success path of handleSend runs out: the callback
\* calls the onTransactionSuccess its handleSend was rendered with
TimerFire(k) ==
    /\ ~MicrotaskPending
    /\ k \in 1..Len(timers)
    /\ timers' = SubSeq(timers, 1, k - 1) \o SubSeq(timers, k + 1, Len(timers))
    /\ refreshCalls' = refreshCalls + 1
    /\ fetchBalances(timers[k])
    /\ UNCHANGED <<sendVars, publicKeyString, nfetch, publicKey, effectRuns,
                   walletVars, pageVars, uncaught>>

(***************************************************************************)
(* The page: useBalance(walletPubkey) and the refresh button.              *)
(***************************************************************************)
\* the keys the page can query the balances of
BalanceKeys == {NULL, "WalletA", "PdaC"}

\* what connection.getBalance can resolve with
Lamports == {1500000000, 500000000}

\* what an RPC read can reject with: an Error or something else
RpcErrors ==
    { [isError |-> TRUE, message |-> "failed to fetch"],
      [isError |-> FALSE, message |-> "n/a"] }

\* how getAccount can settle: with the token account, with
\* TokenAccountNotFoundError, or with the error of a failed RPC read
TokenReplies ==
    { [kind |-> "found", amount |-> 2010000],
      [kind |-> "missing"],
      [kind |-> "error", error |-> [isError |-> TRUE, message |-> "failed to fetch"]] }

\* the number of times the key changes or the refresh button is clicked
MaxFetches == 3

\* err instanceof Error ? err.message : "Failed to fetch balances"
FetchMessage(err) == IF err.isError THEN err.message ELSE "Failed to fetch balances"

\* solLamports / LAMPORTS_PER_SOL
SolBalanceOf(lamports) == DecimalToNumber(FALSE, lamports, LAMPORTS_PER_SOL_DIGITS)

\* UsdcBalanceOf of a fetch that has no balance to show for a missing account
UsdcBalanceNullIfMissing(reply) ==
    IF reply.kind = "found"
    THEN DecimalToNumber(FALSE, reply.amount, USDC_DECIMALS)
    ELSE IF reply.kind = "missing" THEN NullBalance
    ELSE Zero(FALSE)

\* the inner try: Number(tokenAccount.amount) / Math.pow(10, USDC_DECIMALS),
\* and 0 in its catch, whatever was thrown
UsdcBalanceOf(reply) ==
    IF reply.kind = "found"
    THEN DecimalToNumber(FALSE, reply.amount, USDC_DECIMALS)
    ELSE Zero(FALSE)

\* the two conversions, tabulated over what the reads can report
SolBalances == [lamports \in Lamports |-> SolBalanceOf(lamports)]

UsdcBalances == [reply \in TokenReplies |-> UsdcBalanceOf(reply)]

\* the fetches without the i-th
WithoutFetch(i) == SubSeq(fetches, 1, i - 1) \o SubSeq(fetches, i + 1, Len(fetches))

\* the fetches that go on when the i-th returns; those started before it
\* are marked: a fetch started after them has returned
AfterReturn(i) ==
    LET rest == WithoutFetch(i) IN
    [k \in 1..Len(rest) |->
        IF k < i THEN [rest[k] EXCEPT !.superseded = TRUE] ELSE rest[k]]

\* new PublicKey(wallet.smartWallet), or null: every render of the page
\* makes an object of its own, which id tells from the one of the render
\* before when both hold the same address
NewPublicKey(text) ==
    IF text = NULL THEN NullKey
    ELSE [text |-> text,
          id |-> IF text = publicKey.text THEN 1 - publicKey.id ELSE 0]

\* publicKey?.toBase58() ?? null
toBase58(key) == key.text

\* EffectDep of an effect that depends on the walletPubkey object
EffectDepObject(key) == key

\* what the effect of useBalance depends on: fetchBalances, which
\* useCallback renews when publicKeyString is another string
EffectDep(key) == toBase58(key)

\* the page renders with the walletPubkey key: useBalance derives
\* publicKeyString, and its effect calls fetchBalances when its dependency
\* is not the one of the render before
Render(key) ==
    /\ publicKey' = key
    /\ publicKeyString' = toBase58(key)
    /\ IF EffectDep(key) # EffectDep(publicKey)
       THEN /\ effectRuns' = effectRuns + 1
            /\ fetchBalances(toBase58(key))
       ELSE UNCHANGED <<effectRuns, state, fetches, fetchOutcome>>

\* the wallet session changes: the page renders with another walletPubkey
\* and the effect of useBalance calls the new fetchBalances
AddressChange(pk) ==
    /\ ~MicrotaskPending
    /\ pk # publicKeyString
    /\ nfetch' = nfetch + 1
    /\ Render(NewPublicKey(pk))
    /\ UNCHANGED <<sendVars, timerVars, walletVars, pageVars, uncaught>>

\* the page renders again after a state update, its own or that of a
\* component or a hook: same address, another walletPubkey object
Rerender ==
    /\ ~MicrotaskPending
    /\ Render(NewPublicKey(publicKeyString))
    /\ UNCHANGED <<sendVars, timerVars, nfetch, walletVars, pageVars, uncaught>>

\* click on the refresh button, which is there while a wallet is connected
\* and enabled while no fetch is loading
RefreshClick ==
    /\ ~MicrotaskPending
    /\ publicKeyString # NULL
    /\ ~state.isLoading
    /\ nfetch' = nfetch + 1
    /\ fetchBalances(publicKeyString)
    /\ UNCHANGED <<sendVars, timerVars, publicKeyString, publicKey, effectRuns,
                   walletVars, pageVars, uncaught>>

\* GetBalanceResolve of a fetchBalances that shows the native balance as
\* soon as it is read
GetBalanceResolveWritesEarly(i, lamports) ==
    /\ ~MicrotaskPending
    /\ i \in 1..Len(fetches)
    /\ fetches[i].pc = "getBalance"
    /\ IF getAssociatedTokenAddressThrows(USDC_MINT, fetches[i].address)
       THEN /\ state' = [solBalance |-> SolBalances[lamports],
                         usdcBalance |-> Zero(FALSE),
                         isLoading |-> FALSE, error |-> NULL]
            /\ fetches' = AfterReturn(i)
            /\ fetchOutcome' = [kind |-> "returned", native |-> "ok",
                                lamports |-> lamports, token |-> "off-curve"]
            /\ uncaught' = uncaught
                   \cup Escaping(FetchTrySites, "getAssociatedTokenAddress")
       ELSE /\ fetches' = [fetches EXCEPT ![i].pc = "getAccount",
                                          ![i].solBalance = SolBalances[lamports]]
            /\ state' = [state EXCEPT !.solBalance = SolBalances[lamports]]
            /\ UNCHANGED <<fetchOutcome, uncaught>>
    /\ UNCHANGED <<sendVars, timerVars, publicKeyString, nfetch, publicKey,
                   effectRuns, walletVars, pageVars>>

\* connection.getBalance resolves: fetchBalances up to the await of
\* getAccount, or to its end when getAssociatedTokenAddress throws
GetBalanceResolve(i, lamports) ==
    /\ ~MicrotaskPending
    /\ i \in 1..Len(fetches)
    /\ fetches[i].pc = "getBalance"
    /\ IF getAssociatedTokenAddressThrows(USDC_MINT, fetches[i].address)
       THEN /\ state' = [solBalance |-> SolBalances[lamports],
                         usdcBalance |-> Zero(FALSE),
                         isLoading |-> FALSE, error |-> NULL]
            /\ fetches' = AfterReturn(i)
            /\ fetchOutcome' = [kind |-> "returned", native |-> "ok",
                                lamports |-> lamports, token |-> "off-curve"]
            /\ uncaught' = uncaught
                   \cup Escaping(FetchTrySites, "getAssociatedTokenAddress")
       ELSE /\ fetches' = [fetches EXCEPT ![i].pc = "getAccount",
                                          ![i].solBalance = SolBalances[lamports]]
            /\ UNCHANGED <<state, fetchOutcome, uncaught>>
    /\ UNCHANGED <<sendVars, timerVars, publicKeyString, nfetch, publicKey,
                   effectRuns, walletVars, pageVars>>

\* connection.getBalance rejects: the outer catch of fetchBalances
GetBalanceReject(i, err) ==
    /\ ~MicrotaskPending
    /\ i \in 1..Len(fetches)
    /\ fetches[i].pc = "getBalance"
    /\ state' = [state EXCEPT !.isLoading = FALSE, !.error = FetchMessage(err)]
    /\ fetches' = AfterReturn(i)
    /\ fetchOutcome' = [kind |-> "returned", native |-> "error",
                        error |-> err, token |-> "none"]
    /\ uncaught' = uncaught \cup Escaping(FetchTrySites, "getBalance")
    /\ UNCHANGED <<sendVars, timerVars, publicKeyString, nfetch, publicKey,
                   effectRuns, walletVars, pageVars>>

\* getAccount settles: the rest of fetchBalances
GetAccountSettle(i, reply) ==
    /\ ~MicrotaskPending
    /\ i \in 1..Len(fetches)
    /\ fetches[i].pc = "getAccount"
    /\ state' = [solBalance |-> fetches[i].solBalance,
                 usdcBalance |-> UsdcBalances[reply],
                 isLoading |-> FALSE, error |-> NULL]
    /\ fetches' = AfterReturn(i)
    /\ fetchOutcome' = [kind |-> "returned", native |-> "ok",
                        solBalance |-> fetches[i].solBalance,
                        token |-> reply.kind, reply |-> reply]
    /\ uncaught' = IF reply.kind = "found" THEN uncaught
                   ELSE uncaught \cup Escaping(FetchTrySites, "getAccount")
    /\ UNCHANGED <<sendVars, timerVars, publicKeyString, nfetch, publicKey,
                   effectRuns, walletVars, pageVars>>

(***************************************************************************)
(* ConnectWallet: the connect and the disconnect button.                   *)
(***************************************************************************)
\* what connect(), disconnect() and signMessage() can reject with
SessionErrors ==
    { [isError |-> TRUE, message |-> "Passkey prompt dismissed"],
      [isError |-> FALSE, message |-> "n/a"] }

\* err instanceof Error ? err.message : "Failed to connect wallet"
ConnectMessage(err) == IF err.isError THEN err.message ELSE "Failed to connect wallet"

\* the connect() and disconnect() calls without the i-th
WithoutConnectCall(i) ==
    SubSeq(connectCalls, 1, i - 1) \o SubSeq(connectCalls, i + 1, Len(connectCalls))

\* click on the connect button, which the disconnected view shows and
\* which is disabled while the SDK connects: handleConnect up to its await
HandleConnect ==
    /\ ~MicrotaskPending
    /\ ~isConnected
    /\ ~isConnecting
    /\ connectError' = NULL
    /\ isConnecting' = TRUE
    /\ connectCalls' = Append(connectCalls, "connect")
    /\ nconnect' = nconnect + 1
    /\ connectReply' = NoReply
    /\ UNCHANGED <<isConnected, sendVars, timerVars, balanceVars, walletVars,
                   signVars, uncaught>>

\* connect() resolves: the SDK has a session, handleConnect returns
ConnectResolve(i) ==
    /\ ~MicrotaskPending
    /\ i \in 1..Len(connectCalls)
    /\ connectCalls[i] = "connect"
    /\ isConnected' = TRUE
    /\ isConnecting' = FALSE
    /\ connectCalls' = WithoutConnectCall(i)
    /\ connectReply' = [kind |-> "resolved", call |-> "connect"]
    /\ UNCHANGED <<connectError, nconnect, sendVars, timerVars, balanceVars,
                   walletVars, signVars, uncaught>>

\* connect() rejects: the catch block of handleConnect
ConnectReject(i, err) ==
    /\ ~MicrotaskPending
    /\ i \in 1..Len(connectCalls)
    /\ connectCalls[i] = "connect"
    /\ connectError' = ConnectMessage(err)
    /\ isConnecting' = FALSE
    /\ connectCalls' = WithoutConnectCall(i)
    /\ connectReply' = [kind |-> "rejected", call |-> "connect", value |-> err]
    /\ uncaught' = uncaught \cup Escaping(ConnectTrySites, "connect")
    /\ UNCHANGED <<isConnected, nconnect, sendVars, timerVars, balanceVars,
                   walletVars, signVars>>

\* click on the disconnect button, which the connected view shows:
\* handleDisconnect up to its await
HandleDisconnect ==
    /\ ~MicrotaskPending
    /\ isConnected
    /\ connectError' = NULL
    /\ connectCalls' = Append(connectCalls, "disconnect")
    /\ nconnect' = nconnect + 1
    /\ connectReply' = NoReply
    /\ UNCHANGED <<isConnected, isConnecting, sendVars, timerVars, balanceVars,
                   walletVars, signVars, uncaught>>

\* disconnect() resolves: the session is gone, handleDisconnect returns
DisconnectResolve(i) ==
    /\ ~MicrotaskPending
    /\ i \in 1..Len(connectCalls)
    /\ connectCalls[i] = "disconnect"
    /\ isConnected' = FALSE
    /\ connectCalls' = WithoutConnectCall(i)
    /\ connectReply' = [kind |-> "resolved", call |-> "disconnect"]
    /\ UNCHANGED <<isConnecting, connectError, nconnect, sendVars, timerVars,
                   balanceVars, walletVars, signVars, uncaught>>

\* disconnect() rejects: the catch block of handleDisconnect, which logs
DisconnectReject(i, err) ==
    /\ ~MicrotaskPending
    /\ i \in 1..Len(connectCalls)
    /\ connectCalls[i] = "disconnect"
    /\ connectCalls' = WithoutConnectCall(i)
    /\ connectReply' = [kind |-> "rejected", call |-> "disconnect", value |-> err]
    /\ uncaught' = uncaught \cup Escaping(ConnectTrySites, "disconnect")
    /\ UNCHANGED <<isConnected, isConnecting, connectError, nconnect, sendVars,
                   timerVars, balanceVars, walletVars, signVars>>

(***************************************************************************)
(* SignMessage: the collapsible panel with the message and the button.     *)
(***************************************************************************)
\* the characters String.prototype.trim removes
Whitespace == {" ", "\n"}

\* what the user types into the textarea
TypedMessages == { <<>>, <<" ">>, <<" ", "\n">>, <<"g", "m">>, <<" ", "g", "m", " ">> }

RECURSIVE TrimStart(_)
\* the text without the whitespace at its start
TrimStart(text) ==
    IF text # <<>> /\ Head(text) \in Whitespace THEN TrimStart(Tail(text)) ELSE text

RECURSIVE TrimEnd(_)
\* the text without the whitespace at its end
TrimEnd(text) ==
    IF text # <<>> /\ text[Len(text)] \in Whitespace
    THEN TrimEnd(SubSeq(text, 1, Len(text) - 1)) ELSE text

\* message.trim()
trim(text) == TrimEnd(TrimStart(text))

\* err instanceof Error ? err.message : "Failed to sign message"
SignFailureMessage(err) == IF err.isError THEN err.message ELSE "Failed to sign message"

\* disabled={isSigning || !message.trim()} of the sign button
SignDisabled == isSigning \/ trim(message) = <<>>

\* handleSign before its try: the error it sets and whether it goes on to
\* call signMessage
SignRequest(text) ==
    IF trim(text) = <<>>
    THEN [error |-> "Please enter a message to sign", calls |-> FALSE]
    ELSE [error |-> NULL, calls |-> TRUE]

\* the signMessage() calls without the i-th
WithoutSignCall(i) ==
    SubSeq(signCalls, 1, i - 1) \o SubSeq(signCalls, i + 1, Len(signCalls))

\* click on the header of the panel
ToggleExpanded ==
    /\ ~MicrotaskPending
    /\ isConnected
    /\ isExpanded' = ~isExpanded
    /\ UNCHANGED <<message, signSignature, isSigning, signError, signCalls,
                   nsign, signReply, sendVars, timerVars, balanceVars,
                   walletVars, connectVars, uncaught>>

\* onChange of the textarea
SetMessage(text) ==
    /\ ~MicrotaskPending
    /\ isConnected
    /\ isExpanded
    /\ ~isSigning
    /\ message' = text
    /\ UNCHANGED <<signSignature, isExpanded, isSigning, signError, signCalls,
                   nsign, signReply, sendVars, timerVars, balanceVars,
                   walletVars, connectVars, uncaught>>

\* click on the sign button: handleSign up to its await
HandleSign ==
    /\ ~MicrotaskPending
    /\ isConnected
    /\ isExpanded
    /\ ~SignDisabled
    /\ signError' = SignRequest(message).error
    /\ IF SignRequest(message).calls
       THEN /\ signSignature' = NULL
            /\ isSigning' = TRUE
            /\ signCalls' = Append(signCalls, [message |-> message])
            /\ nsign' = nsign + 1
            /\ signReply' = NoReply
       ELSE UNCHANGED <<signSignature, isSigning, signCalls, nsign, signReply>>
    /\ UNCHANGED <<message, isExpanded, sendVars, timerVars, balanceVars,
                   walletVars, connectVars, uncaught>>

\* SignResolve that stores the signature and leaves isSigning as it is
SignResolveKeepsSigning(i, sig) ==
    /\ ~MicrotaskPending
    /\ i \in 1..Len(signCalls)
    /\ signSignature' = sig
    /\ signCalls' = WithoutSignCall(i)
    /\ signReply' = [kind |-> "resolved", value |-> sig]
    /\ UNCHANGED <<message, isExpanded, isSigning, signError, nsign, sendVars,
                   timerVars, balanceVars, walletVars, connectVars, uncaught>>

\* signMessage() resolves: the signature is stored, finally ends the signing
SignResolve(i, sig) ==
    /\ ~MicrotaskPending
    /\ i \in 1..Len(signCalls)
    /\ signSignature' = sig
    /\ isSigning' = FALSE
    /\ signCalls' = WithoutSignCall(i)
    /\ signReply' = [kind |-> "resolved", value |-> sig]
    /\ UNCHANGED <<message, isExpanded, signError, nsign, sendVars, timerVars,
                   balanceVars, walletVars, connectVars, uncaught>>

\* signMessage() rejects: the catch block, then finally
SignReject(i, err) ==
    /\ ~MicrotaskPending
    /\ i \in 1..Len(signCalls)
    /\ signError' = SignFailureMessage(err)
    /\ isSigning' = FALSE
    /\ signCalls' = WithoutSignCall(i)
    /\ signReply' = [kind |-> "rejected", value |-> err]
    /\ uncaught' = uncaught \cup Escaping(SignTrySites, "signMessage")
    /\ UNCHANGED <<message, signSignature, isExpanded, nsign, sendVars,
                   timerVars, balanceVars, walletVars, connectVars>>

Next ==
    \/ \E t \in TokenTypes : SetToken(t)
    \/ \E typed \in TypedAmounts : SetAmount(typed)
    \/ \E text \in TypedRecipients : SetRecipient(text)
    \/ \E pk \in SenderKeys : WalletChange(pk)
    \/ nsub < MaxSubmissions /\ HandleSend
    \/ \E i \in 1..Len(runs), exists \in BOOLEAN : BuildUsdc(i, exists)
    \/ \E i \in 1..Len(runs), sig \in Signatures : AdapterResolve(i, sig)
    \/ \E i \in 1..Len(runs), err \in Rejections : AdapterReject(i, err)
    \/ \E k \in 1..Len(timers) : TimerFire(k)

Spec == Init /\ [][Next]_vars

\* The event loop runs every continuation that is ready and every timer
\* that has run out.  A continuation of handleSend is ready exactly when
\* MicrotaskPending holds, so its weak fairness is written with that
\* condition in the place of ENABLED.
BuildSteps == \E i \in 1..Len(runs), exists \in BOOLEAN : BuildUsdc(i, exists)

TimerSteps == \E k \in 1..Len(timers) : TimerFire(k)

FairSpec ==
    /\ Spec
    /\ ([]<>(~MicrotaskPending) \/ []<><<BuildSteps>>_vars)
    /\ WF_vars(TimerSteps)

(***************************************************************************)
(* The same component over a longer session, so that the history fills up  *)
(* and drops records: one sender, one recipient, a valid and an invalid    *)
(* amount, no refresh callback.                                            *)
(***************************************************************************)
MaxHistorySubmissions == 6

HistoryAmounts == { <<"1", ".", "5">>, <<"0">> }

InitHistory ==
    /\ Init
    /\ smartWalletPubkey = "WalletA"
    /\ onTransactionSuccess = NoCallback

NextHistory ==
    \/ \E t \in TokenTypes : SetToken(t)
    \/ \E typed \in HistoryAmounts : SetAmount(typed)
    \/ SetRecipient("WalletB")
    \/ nsub < MaxHistorySubmissions /\ HandleSend
    \/ \E i \in 1..Len(runs) : BuildUsdc(i, TRUE)
    \/ \E i \in 1..Len(runs), sig \in Signatures : AdapterResolve(i, sig)
    \/ \E i \in 1..Len(runs) :
            AdapterReject(i, [isError |-> TRUE, message |-> "User cancelled"])

SpecHistory == InitHistory /\ [][NextHistory]_vars

(***************************************************************************)
(* The page with its balances: the wallet connects and disconnects, the    *)
(* user refreshes, and transfers of one amount to one recipient succeed    *)
(* and call the refresh after their delay.                                 *)
(***************************************************************************)
MaxBalanceSubmissions == 1

InitBalance ==
    /\ Init
    /\ smartWalletPubkey = "WalletA"
    /\ onTransactionSuccess = "refreshBalance"

NextBalance ==
    \/ \E pk \in BalanceKeys : nfetch + nsub < MaxFetches /\ AddressChange(pk)
    \/ nfetch + nsub < MaxFetches /\ RefreshClick
    \/ Rerender
    \/ \E i \in 1..Len(fetches), lamports \in Lamports : GetBalanceResolve(i, lamports)
    \/ \E i \in 1..Len(fetches), err \in RpcErrors : GetBalanceReject(i, err)
    \/ \E i \in 1..Len(fetches), reply \in TokenReplies : GetAccountSettle(i, reply)
    \/ SetAmount(<<"1", ".", "5">>)
    \/ SetRecipient("WalletB")
    \/ nsub < MaxBalanceSubmissions /\ nfetch + nsub < MaxFetches /\ HandleSend
    \/ \E i \in 1..Len(runs) : AdapterResolve(i, "sig1")
    \/ \E k \in 1..Len(timers) : TimerFire(k)

SpecBalance == InitBalance /\ [][NextBalance]_vars

(***************************************************************************)
(* The wallet hook under everything the SDK can report: a key or none, and *)
(* an address string that is absent, empty, malformed or well-formed,      *)
(* while the user submits a transfer with the derived key.                 *)
(***************************************************************************)
MaxWalletSubmissions == 1

\* what walletHook.wallet?.smartWallet can be
RawAddresses == {Absent, "", "not-an-address", "WalletA", "PdaC"}

InitWallet ==
    /\ Init
    /\ smartWalletPubkey = NULL
    /\ onTransactionSuccess = NoCallback

NextWallet ==
    \/ \E sdk \in SenderKeys, address \in RawAddresses : WalletUpdate(sdk, address)
    \/ SetAmount(<<"1", ".", "5">>)
    \/ SetRecipient("WalletB")
    \/ nsub < MaxWalletSubmissions /\ HandleSend
    \/ \E i \in 1..Len(runs) : AdapterResolve(i, "sig1")
    \/ \E i \in 1..Len(runs) :
            AdapterReject(i, [isError |-> TRUE, message |-> "User cancelled"])

SpecWallet == InitWallet /\ [][NextWallet]_vars

(***************************************************************************)
(* The session: the user connects and disconnects with the passkey and     *)
(* signs messages while connected; every call of the SDK can fail.         *)
(***************************************************************************)
MaxConnectClicks == 3

MaxSignCalls == 2

InitSession ==
    /\ Init
    /\ smartWalletPubkey = NULL
    /\ onTransactionSuccess = NoCallback

NextSession ==
    \/ nconnect < MaxConnectClicks /\ HandleConnect
    \/ \E i \in 1..Len(connectCalls) : ConnectResolve(i)
    \/ \E i \in 1..Len(connectCalls), err \in SessionErrors : ConnectReject(i, err)
    \/ nconnect < MaxConnectClicks /\ HandleDisconnect
    \/ \E i \in 1..Len(connectCalls) : DisconnectResolve(i)
    \/ \E i \in 1..Len(connectCalls), err \in SessionErrors : DisconnectReject(i, err)
    \/ ToggleExpanded
    \/ \E text \in TypedMessages : SetMessage(text)
    \/ nsign < MaxSignCalls /\ HandleSign
    \/ \E i \in 1..Len(signCalls), sig \in Signatures : SignResolve(i, sig)
    \/ \E i \in 1..Len(signCalls), err \in SessionErrors : SignReject(i, err)

SpecSession == InitSession /\ [][NextSession]_vars

(***************************************************************************)
(* The whole page in one session: the user connects, the balances of the   *)
(* wallet are fetched, the user sends one amount and signs one message,    *)
(* and disconnects; every call of the SDK and of the RPC node can fail.    *)
(***************************************************************************)
MaxPageCalls == 1

InitPage ==
    /\ Init
    /\ smartWalletPubkey = "WalletA"
    /\ onTransactionSuccess = "refreshBalance"

NextPage ==
    \/ nconnect < MaxPageCalls /\ HandleConnect
    \/ \E i \in 1..Len(connectCalls) : ConnectResolve(i)
    \/ \E i \in 1..Len(connectCalls), err \in SessionErrors : ConnectReject(i, err)
    \/ nconnect < MaxPageCalls + 1 /\ HandleDisconnect
    \/ \E i \in 1..Len(connectCalls) : DisconnectResolve(i)
    \/ \E i \in 1..Len(connectCalls), err \in SessionErrors : DisconnectReject(i, err)
    \/ nsign = 0 /\ ToggleExpanded
    \/ nsign = 0 /\ SetMessage(<<"g", "m">>)
    \/ nsign < MaxPageCalls /\ HandleSign
    \/ \E i \in 1..Len(signCalls) : SignResolve(i, "sig1")
    \/ \E i \in 1..Len(signCalls), err \in SessionErrors : SignReject(i, err)
    \/ isConnected /\ nfetch < MaxPageCalls /\ AddressChange("WalletA")
    \/ \E i \in 1..Len(fetches) : GetBalanceResolve(i, 1500000000)
    \/ \E i \in 1..Len(fetches), err \in RpcErrors : GetBalanceReject(i, err)
    \/ \E i \in 1..Len(fetches), reply \in TokenReplies : GetAccountSettle(i, reply)
    \/ \E t \in TokenTypes : isConnected /\ nsub = 0 /\ SetToken(t)
    \/ isConnected /\ nsub = 0 /\ SetAmount(<<"1", ".", "5">>)
    \/ \E text \in {"WalletB", "PdaC"} : isConnected /\ nsub = 0 /\ SetRecipient(text)
    \/ isConnected /\ nsub < MaxPageCalls /\ HandleSend
    \/ \E i \in 1..Len(runs) : BuildUsdc(i, TRUE)
    \/ \E i \in 1..Len(runs) : AdapterResolve(i, "sig1")
    \/ \E i \in 1..Len(runs), err \in Rejections : AdapterReject(i, err)
    \/ \E k \in 1..Len(timers) : TimerFire(k)

SpecPage == InitPage /\ [][NextPage]_vars

(***************************************************************************)
(* Transfers of very small amounts: a tenth of a lamport, a micro-USDC,    *)
(* and an ordinary amount, from one sender to one recipient.               *)
(***************************************************************************)
MaxSmallSubmissions == 2

SmallAmounts ==
    { <<"0", ".", "0", "0", "0", "0", "0", "0", "0", "0", "0", "1">>,
      <<"0", ".", "0", "0", "0", "0", "0", "1">>,
      <<"1", ".", "5">> }

InitSmall ==
    /\ Init
    /\ smartWalletPubkey = "WalletA"
    /\ onTransactionSuccess = NoCallback

NextSmall ==
    \/ \E t \in TokenTypes : SetToken(t)
    \/ \E typed \in SmallAmounts : SetAmount(typed)
    \/ SetRecipient("WalletB")
    \/ nsub < MaxSmallSubmissions /\ HandleSend
    \/ \E i \in 1..Len(runs) : BuildUsdc(i, TRUE)
    \/ \E i \in 1..Len(runs) : AdapterResolve(i, "sig1")
    \/ \E i \in 1..Len(runs) :
            AdapterReject(i, [isError |-> TRUE, message |-> "User cancelled"])

SpecSmall == InitSmall /\ [][NextSmall]_vars

(***************************************************************************)
(* Properties of the validation and of the submission status.              *)
(***************************************************************************)
\* the amount string parses to a number strictly greater than 0
ParsesPositive(amt) ==
    LET x == parseFloat(amt) IN x.cls = "num" /\ ~x.neg

\* what a transfer request must satisfy to be submitted
RequestValid(sender, amt, rcp) ==
    /\ sender # NULL
    /\ ParsesPositive(amt)
    /\ rcp \in ValidAddresses

\* the step is an invocation of handleSend
ClickStep == nsub' # nsub

\* the step is an edit of the form by the user
EditStep == nsub' = nsub /\ runs' = runs /\ form' # form

\* the runs of handleSend whose signAndSendTransaction call is outstanding
Outstanding == {i \in 1..Len(runs) : runs[i].pc = "adapter"}

\* C1: signAndSendTransaction is called only for a request with a non-null
\* sender, an amount that parses to a number above 0 and a recipient that is
\* a valid address; a click with any other input starts no run of the
\* handler that could call the adapter.
C1_CallOnlyIfValid ==
    /\ [](\A i \in 1..Len(runs) :
            RequestValid(runs[i].sender, runs[i].amount, runs[i].recipient))
    /\ [][ClickStep /\ ~RequestValid(smartWalletPubkey, amount, recipient)
            => runs' = runs]_vars

\* a click was rejected by the last check, with nothing handed to the adapter
C1_Witness ==
    /\ nsub > 0
    /\ status = "idle"
    /\ runs = <<>>
    /\ smartWalletPubkey # NULL
    /\ ParsesPositive(amount)
    /\ recipient = "not-an-address"
    /\ error = "Please enter a valid Solana address"

\* C2: a click sets the message of the first check that fails, in the order
\* sender, amount, recipient; with a sender, amount "0" or "-1" gives the
\* invalid-amount message whatever the recipient is.
C2_FirstViolationWins ==
    [][ClickStep =>
        /\ smartWalletPubkey = NULL => error' = "Wallet not connected"
        /\ smartWalletPubkey # NULL /\ ~ParsesPositive(amount)
              => error' = "Please enter a valid amount"
        /\ smartWalletPubkey # NULL /\ amount \in {<<"0">>, <<"-", "1">>}
              => error' = "Please enter a valid amount"
        /\ smartWalletPubkey # NULL /\ ParsesPositive(amount)
              /\ recipient \notin ValidAddresses
              => error' = "Please enter a valid Solana address"
        /\ ~RequestValid(smartWalletPubkey, amount, recipient)
              => status' = status /\ runs' = runs
    ]_vars

\* amount and recipient are both invalid and the amount's message is shown
C2_Witness ==
    /\ nsub > 0
    /\ smartWalletPubkey # NULL
    /\ amount \in {<<"0">>, <<"-", "1">>}
    /\ recipient = "not-an-address"
    /\ error = "Please enter a valid amount"
    /\ status = "idle"

StatusTransitions ==
    { <<"idle", "pending">>, <<"pending", "success">>, <<"pending", "error">>,
      <<"success", "pending">>, <<"error", "pending">> }

\* C3: the status changes only along idle->pending, pending->success,
\* pending->error, success->pending and error->pending, and it becomes
\* pending only by a click whose request passes all three checks.
C3_StatusTransitions ==
    [][status' # status =>
        /\ <<status, status'>> \in StatusTransitions
        /\ status' = "pending" =>
              ClickStep /\ RequestValid(smartWalletPubkey, amount, recipient)
    ]_vars

\* a second submission is pending after an earlier one succeeded
C3_Witness ==
    /\ status = "pending"
    /\ txHistory # <<>>
    /\ Outstanding # {}

\* C4 as claimed: an edit of the form after a finished submission returns
\* the status to idle.
C4_EditReturnsToIdle ==
    [][EditStep /\ status \in {"success", "error"} => status' = "idle"]_vars

\* C4 as the code has it: an edit of the form leaves the status as it is,
\* the status never returns to idle, and it leaves success or error only
\* for pending, by a click.
C4_EditKeepsStatus ==
    /\ [][EditStep => status' = status]_vars
    /\ [][status # "idle" => status' # "idle"]_vars
    /\ [][(status \in {"success", "error"} /\ status' # status)
            => status' = "pending" /\ ClickStep]_vars

\* the form has been edited after a success, and the status still is success
C4_Witness ==
    /\ status = "success"
    /\ amount # <<>>
    /\ recipient # ""

\* C5: while a call of signAndSendTransaction is outstanding the status is
\* pending, so button, select and inputs are disabled, and there is at most
\* one such call.
C5_AtMostOneOutstanding ==
    /\ Outstanding # {} => status = "pending" /\ InputsDisabled /\ SendDisabled
    /\ status = "pending" => InputsDisabled /\ SendDisabled
    /\ Cardinality(Outstanding) <= 1

\* a call is outstanding, the form is filled in and clicks are left
C5_Witness ==
    /\ Outstanding # {}
    /\ amount # <<>>
    /\ recipient # ""
    /\ nsub < MaxSubmissions

(***************************************************************************)
(* Properties of the adapter call and of the instruction lists.            *)
(***************************************************************************)
\* the step settles the outstanding call of run i: the run returns
Settles(i) == i \in Outstanding /\ Len(runs') < Len(runs)

\* C6: every submission that passes validation makes one call of
\* signAndSendTransaction with the whole instruction list; when the call has
\* settled the status is success with the returned signature stored if it
\* resolved, error if it raised, and never pending.
C6_OneCallThenSettled ==
    /\ [][ClickStep /\ RequestValid(smartWalletPubkey, amount, recipient)
            => Len(runs') = Len(runs) + 1]_vars
    /\ [][\A i \in 1..Len(runs) :
            runs[i].pc = "build" =>
                /\ i <= Len(runs')
                /\ runs'[i].pc = "adapter"
                /\ runs'[i].instructions # <<>>]_vars
    /\ [][\A i \in 1..Len(runs) :
            Settles(i) =>
                \/ status' = "success" /\ signature' \in Signatures
                       /\ error' = NULL
                \/ status' = "error" /\ error' # NULL /\ signature' = NULL]_vars

\* the SOL runs, and the USDC runs, whose call is outstanding
OutstandingFor(t) == {i \in Outstanding : runs[i].token = t}

\* C7: an instruction list handed over for SOL holds exactly one
\* instruction, a native transfer from the validated sender to the validated
\* recipient.
C7_SolSingleTransfer ==
    \A i \in OutstandingFor("SOL") :
        LET r == runs[i] IN
        /\ Len(r.instructions) = 1
        /\ r.instructions[1].program = "System"
        /\ r.instructions[1].kind = "Transfer"
        /\ r.sender # NULL
        /\ r.recipient \in ValidAddresses
        /\ r.instructions[1].fromPubkey = r.sender
        /\ r.instructions[1].toPubkey = r.recipient

\* a SOL transfer between two different addresses is with the adapter
C7_Witness ==
    \E i \in OutstandingFor("SOL") :
        /\ runs[i].sender = "WalletA"
        /\ runs[i].recipient = "WalletB"
        /\ Len(runs[i].instructions) = 1

\* C8: an instruction list handed over for USDC has length 2, the idempotent
\* account creation first and the token transfer second, whether or not the
\* recipient's token account exists.
C8_UsdcCreateThenTransfer ==
    \A i \in OutstandingFor("USDC") :
        LET r == runs[i] IN
        /\ Len(r.instructions) = 2
        /\ r.instructions[1].program = "AssociatedToken"
        /\ r.instructions[1].kind = "CreateIdempotent"
        /\ r.instructions[2].program = "Token"
        /\ r.instructions[2].kind = "Transfer"

\* a USDC transfer to a recipient whose token account exists is with the
\* adapter
C8_Witness ==
    \E i \in OutstandingFor("USDC") :
        /\ runs[i].ataExists
        /\ Len(runs[i].instructions) = 2

\* C9: in a USDC instruction list the creation has payer = sender, owner =
\* recipient and mint = the USDC mint, and creates the account the transfer
\* pays into; the transfer draws on the sender's token account for that mint
\* under the sender's authority.
C9_UsdcAccounts ==
    \A i \in OutstandingFor("USDC") :
        LET r        == runs[i]
            create   == r.instructions[1]
            transfer == r.instructions[2]
        IN  /\ create.kind = "CreateIdempotent"
            /\ transfer.kind = "Transfer"
            /\ create.payer = r.sender
            /\ create.owner = r.recipient
            /\ create.mint = USDC_MINT
            /\ create.associatedToken = transfer.destination
            /\ create.associatedToken
                   = getAssociatedTokenAddress(USDC_MINT, r.recipient)
            /\ transfer.source = getAssociatedTokenAddress(USDC_MINT, r.sender)
            /\ transfer.owner = r.sender

\* a USDC transfer between two different owners, recipient account absent,
\* is with the adapter
C9_Witness ==
    \E i \in OutstandingFor("USDC") :
        /\ runs[i].sender = "WalletA"
        /\ runs[i].recipient = "WalletB"
        /\ ~runs[i].ataExists
        /\ runs[i].instructions[2].source # runs[i].instructions[2].destination

\* the number of decimals of the asset
DecimalsOf(t) == IF t = "SOL" THEN LAMPORTS_PER_SOL_DIGITS ELSE USDC_DECIMALS

\* the amount string has no more fraction digits than the asset has decimals
ExactlyRepresentable(amt, t) == NumericPrefix(amt).nf <= DecimalsOf(t)

\* amount * 10^decimals in integer arithmetic, for such an amount string
ExactBaseUnits(amt, t) ==
    LET p == NumericPrefix(amt) IN
    DigitsValue(SubSeq(amt, p.start, p.start + p.ni - 1)
                \o SubSeq(amt, p.start + p.ni + 1, p.start + p.ni + p.nf))
        * Pow10(DecimalsOf(t) - p.nf)

\* the base units the transfer instruction of a run moves
TransferredUnits(r) ==
    IF r.token = "SOL" THEN r.instructions[1].lamports
    ELSE r.instructions[2].amount

\* C10: for a positive amount string exactly representable at the asset's
\* decimals, the transfer instruction carries exactly amount * 10^decimals
\* ("1.5" with 6 decimals gives 1500000).
C10_ExactBaseUnits ==
    \A i \in Outstanding :
        ExactlyRepresentable(runs[i].amount, runs[i].token)
            => TransferredUnits(runs[i])
                   = ExactBaseUnits(runs[i].amount, runs[i].token)

\* the step is the success path of the run i of handleSend
SucceedStep(i) == Settles(i) /\ adapterReply'.kind = "resolved"

\* the step is the catch block of the run i after the adapter raised
RaiseStep(i) == Settles(i) /\ adapterReply'.kind = "rejected"

\* C11: the history never holds more than five records, whatever the number
\* and order of successful, rejected and failed submissions.
C11_HistoryAtMostFive == Len(txHistory) <= 5

\* a sixth success has been recorded
C11_Witness == nsucc >= 6 /\ Len(txHistory) = 5

\* C12: a successful submission puts the record of the returned signature
\* and the submitted asset and amount at the head of the history, followed
\* by the first four records of the previous history in their order.
C12_NewRecordFirst ==
    [][\A i \in 1..Len(runs) :
          SucceedStep(i) =>
            /\ txHistory' # <<>>
            /\ Head(txHistory') = [signature |-> adapterReply'.value,
                                   token |-> runs[i].token,
                                   amount |-> runs[i].amount]
            /\ Tail(txHistory') =
                   SubSeq(txHistory, 1,
                          IF Len(txHistory) < 4 THEN Len(txHistory) ELSE 4)]_vars

\* a full history whose oldest record was dropped by a later success
C12_Witness ==
    /\ nsucc >= 6
    /\ adapterReply.kind = "resolved"
    /\ txHistory[1].signature = adapterReply.value
    /\ txHistory[1].token # txHistory[2].token
    /\ txHistory[2].signature # txHistory[5].signature

\* C13: the history changes only in the success path of a submission, and
\* its length is the number of successful submissions, capped at five.
C13_HistoryFrame ==
    /\ [](Len(txHistory) = IF nsucc < 5 THEN nsucc ELSE 5)
    /\ [][txHistory' # txHistory
            => \E i \in 1..Len(runs) : SucceedStep(i)]_vars

\* the adapter raised, or validation failed, after a success: the history
\* still has one record per success
C13_Witness ==
    /\ nsucc >= 1
    /\ nsub > nsucc
    /\ status = "error"
    /\ adapterReply.kind = "rejected"
    /\ Len(txHistory) = nsucc

\* C14: when the adapter call raises, the status goes from pending to error,
\* the error state holds the message of the raised error (the text
\* "Transaction failed" when what was raised is not an Error), and asset
\* kind, amount and recipient keep their values.
C14_RaiseKeepsForm ==
    [][\A i \in 1..Len(runs) :
          RaiseStep(i) =>
            /\ status = "pending"
            /\ status' = "error"
            /\ error' = IF adapterReply'.value.isError
                        THEN adapterReply'.value.message
                        ELSE "Transaction failed"
            /\ form' = form
            /\ form = <<runs[i].token, runs[i].amount, runs[i].recipient>>]_vars

\* the adapter raised an Error and its message is shown over the kept form
C14_Witness ==
    /\ adapterReply.kind = "rejected"
    /\ adapterReply.value.isError
    /\ status = "error"
    /\ error = adapterReply.value.message
    /\ amount # <<>>
    /\ recipient # ""

\* C15: the success path empties amount and recipient, which disables the
\* send button, and leaves the asset kind as submitted.
C15_SuccessClearsForm ==
    [][\A i \in 1..Len(runs) :
          SucceedStep(i) =>
            /\ amount' = <<>>
            /\ recipient' = ""
            /\ token' = token
            /\ token' = runs[i].token
            /\ SendDisabled']_vars

\* a USDC transfer succeeded and left an empty form
C15_Witness ==
    /\ adapterReply.kind = "resolved"
    /\ status = "success"
    /\ token = "USDC"
    /\ amount = <<>>
    /\ recipient = ""
    /\ SendDisabled

\* the refresh callback is supplied
CallbackSupplied == onTransactionSuccess # NoCallback

\* C16: with a refresh callback supplied, every success is eventually
\* followed by one invocation of the callback, in a later step than the
\* one recording the success: the invocations made and those still due
\* are together as many as the successes (so a validation failure or an
\* error causes none, and without a callback there is none), and again
\* and again no invocation is due, so each one due is made.
C16_RefreshAfterSuccess ==
    /\ [](refreshCalls + Len(timers) = IF CallbackSupplied THEN nsucc ELSE 0)
    /\ []<>(timers = <<>>)

\* the callback has run once for each success, and a later submission
\* failed
C16_Witness ==
    /\ CallbackSupplied
    /\ nsucc >= 1
    /\ refreshCalls = nsucc
    /\ timers = <<>>
    /\ status = "error"

\* C17: while the queried key is null no fetch started earlier writes into
\* the snapshot: both balances are null and isLoading is false.
C17_NoLateWriteBack ==
    publicKeyString = NULL =>
        /\ state.solBalance = NullBalance
        /\ state.usdcBalance = NullBalance
        /\ ~state.isLoading

\* the step calls a fetchBalances made for no key: the effect after the key
\* has become null, or a timer whose handleSend was rendered without a key
NullKeyFetch ==
    \/ publicKeyString # NULL /\ publicKeyString' = NULL
    \/ \E k \in 1..Len(timers) :
          /\ timers[k] = NULL
          /\ timers' = SubSeq(timers, 1, k - 1) \o SubSeq(timers, k + 1, Len(timers))

\* C18: a fetchBalances without a key starts no network read and sets the
\* snapshot to null balances, isLoading false and error null, whatever the
\* snapshot held.
C18_NullKeyResets ==
    [][NullKeyFetch =>
          /\ fetches' = fetches
          /\ state' = [solBalance |-> NullBalance, usdcBalance |-> NullBalance,
                       isLoading |-> FALSE, error |-> NULL]]_vars

\* the wallet was connected, its balances were fetched, and it disconnected
C18_Witness ==
    /\ publicKeyString = NULL
    /\ nfetch >= 2
    /\ fetches = <<>>
    /\ timers = <<>>
    /\ state = InitialBalanceState

\* the step is the return of the i-th fetchBalances
FetchReturns(i) ==
    /\ i \in 1..Len(fetches)
    /\ fetches' = AfterReturn(i)
    /\ fetchOutcome'.kind = "returned"

\* the message of what a read rejected with
FailureMessage(err) ==
    IF err.isError THEN err.message ELSE "Failed to fetch balances"

\* C19: a fetch that fails on the read of the native balance or on the read
\* of the token account, for another reason than a missing token account,
\* ends with isLoading false, the message of the failure as error and the
\* balances the snapshot had when the fetch started.
C19_FailureKeepsBalances ==
    [][\A i \in 1..Len(fetches) :
          (FetchReturns(i) /\ (fetchOutcome'.native = "error"
                                  \/ fetchOutcome'.token = "error")) =>
            /\ ~state'.isLoading
            /\ state'.error =
                   FailureMessage(IF fetchOutcome'.native = "error"
                                  THEN fetchOutcome'.error
                                  ELSE fetchOutcome'.reply.error)
            /\ state'.solBalance = fetches[i].before.solBalance
            /\ state'.usdcBalance = fetches[i].before.usdcBalance]_vars

\* C20: a fetch whose native read succeeded and whose owner has no token
\* account ends with usdcBalance 0, error null and isLoading false.
C20_MissingAccountIsZero ==
    [][\A i \in 1..Len(fetches) :
          (FetchReturns(i) /\ fetchOutcome'.native = "ok"
                           /\ fetchOutcome'.token = "missing") =>
            /\ state'.usdcBalance = Zero(FALSE)
            /\ state'.solBalance = fetchOutcome'.solBalance
            /\ state'.error = NULL
            /\ ~state'.isLoading]_vars

\* a fetch has found the native balance and no token account
C20_Witness ==
    /\ fetchOutcome.kind = "returned"
    /\ fetchOutcome.token = "missing"
    /\ state.solBalance.cls = "num"
    /\ state.usdcBalance = Zero(FALSE)
    /\ state.error = NULL
    /\ ~state.isLoading

(***************************************************************************)
(* Properties of the renders of the page and of the effect of useBalance.  *)
(***************************************************************************)
\* the step starts a fetch of the balances of the address pk
StartsFetchFor(pk) ==
    /\ Len(fetches') = Len(fetches) + 1
    /\ fetches'[Len(fetches')].address = pk
    /\ fetches'[Len(fetches')].pc = "getBalance"
    /\ SubSeq(fetches', 1, Len(fetches)) = fetches

\* the step is a click on the refresh button
RefreshStep == nfetch' # nfetch /\ publicKeyString' = publicKeyString

\* C21: the effect of useBalance has run once at mount and runs once in
\* every step that changes the address string, and in no other step: a
\* render with another walletPubkey object of the same address starts no
\* fetch, neither does the return of a fetch.  The effect starts one fetch
\* for the new address, a refresh starts one for the address of the page,
\* every fetch is started by the effect, a refresh click or the refresh
\* after a transfer, and the effect has run at most once per address change.
C21_FetchPerAddressChange ==
    /\ [][effectRuns' # effectRuns <=> publicKeyString' # publicKeyString]_vars
    /\ [][publicKeyString' # publicKeyString =>
            /\ effectRuns' = effectRuns + 1
            /\ IF publicKeyString' = NULL THEN fetches' = fetches
               ELSE StartsFetchFor(publicKeyString')]_vars
    /\ [][RefreshStep =>
            StartsFetchFor(publicKeyString) /\ effectRuns' = effectRuns]_vars
    /\ [][Len(fetches') > Len(fetches) =>
            /\ Len(fetches') = Len(fetches) + 1
            /\ \/ effectRuns' # effectRuns
               \/ nfetch' # nfetch
               \/ refreshCalls' # refreshCalls]_vars
    /\ [](effectRuns <= 1 + nfetch)

\* the balances of an address were fetched once and shown, the page has
\* rendered again with another object of that address, and no fetch runs
C21_Witness ==
    /\ publicKey.text = "WalletA"
    /\ publicKey.id = 1
    /\ effectRuns = 2
    /\ nfetch = 1
    /\ refreshCalls = 0
    /\ fetches = <<>>
    /\ fetchOutcome.kind = "returned"
    /\ state.solBalance.cls = "num"

(***************************************************************************)
(* Properties of useTypedWallet.                                           *)
(***************************************************************************)
\* C22: smartWalletPubkey of useTypedWallet is determined by the key and
\* the address string the SDK reports: it is the key of the SDK when there
\* is one, else the key parsed from the address string when there is a
\* string and it is well-formed, else null; and new PublicKey has thrown
\* out of the derivation in no state.
C22_DerivedKey ==
    /\ smartWalletPubkey =
           IF sdkSmartWalletPubkey # NULL THEN sdkSmartWalletPubkey
           ELSE IF smartWalletAddress \in ValidAddresses THEN smartWalletAddress
           ELSE NULL
    /\ "new PublicKey" \notin uncaught

\* the SDK gave no key and a malformed address, the derived key is null,
\* and a click has been refused for the lack of a wallet
C22_Witness ==
    /\ sdkSmartWalletPubkey = NULL
    /\ smartWalletAddress = "not-an-address"
    /\ smartWalletPubkey = NULL
    /\ uncaught = {}
    /\ error = "Wallet not connected"

\* the SDK gave no key and a well-formed address: the key is parsed from it
C22_WitnessParsed ==
    /\ sdkSmartWalletPubkey = NULL
    /\ smartWalletAddress = "PdaC"
    /\ smartWalletPubkey = "PdaC"

(***************************************************************************)
(* Properties of the session handlers.                                     *)
(***************************************************************************)
\* the step is the return of a connect() or disconnect() that rejected
ConnectCallRejects ==
    Len(connectCalls') < Len(connectCalls) /\ connectReply'.kind = "rejected"

\* the step is the return of a signMessage() that rejected
SignCallRejects ==
    Len(signCalls') < Len(signCalls) /\ signReply'.kind = "rejected"

\* C23: when connect(), disconnect() or signMessage() rejects, the handler
\* that called it stores the message of the rejection in the error state
\* of its component: the message of an Error, a text of the handler for
\* anything else.
C23_RejectionStored ==
    /\ [][ConnectCallRejects =>
            IF connectReply'.value.isError
            THEN connectError' = connectReply'.value.message
            ELSE connectError' # NULL]_vars
    /\ [][SignCallRejects =>
            IF signReply'.value.isError
            THEN signError' = signReply'.value.message
            ELSE signError' # NULL]_vars

\* the text holds nothing but whitespace
Blank(text) == \A k \in 1..Len(text) : text[k] \in Whitespace

\* the step is the return of a signMessage() call
SignCallSettles == Len(signCalls') < Len(signCalls)

\* C30: handleSign with an empty or all-whitespace message sets the error
\* "Please enter a message to sign" and does not call signMessage, with
\* any other message it calls it; isSigning is true exactly while a call of
\* signMessage is outstanding, of which there is at most one, and the
\* button is disabled meanwhile; when the call settles isSigning is false,
\* and the signature is the one it resolved with, or null when it
\* rejected: no other step stores a signature.
C30_SigningLifecycle ==
    /\ [](SignRequest(message) =
             IF Blank(message)
             THEN [error |-> "Please enter a message to sign", calls |-> FALSE]
             ELSE [error |-> NULL, calls |-> TRUE])
    /\ [](Len(signCalls) <= 1)
    /\ [](isSigning <=> Len(signCalls) = 1)
    /\ [](isSigning => SignDisabled)
    /\ [][nsign' # nsign =>
            ~Blank(message) /\ isSigning' /\ signSignature' = NULL
                            /\ signError' = NULL]_vars
    /\ [][SignCallSettles =>
            /\ ~isSigning'
            /\ signSignature' = IF signReply'.kind = "resolved"
                                THEN signReply'.value ELSE NULL]_vars
    /\ [][signSignature' # signSignature /\ signSignature' # NULL =>
            SignCallSettles /\ signReply'.kind = "resolved"]_vars

\* a message with whitespace around it was signed: the signature is stored
\* and the signing is over
C30_Witness ==
    /\ nsign = 1
    /\ signCalls = <<>>
    /\ signReply.kind = "resolved"
    /\ signSignature = "sig1"
    /\ ~isSigning
    /\ signError = NULL
    /\ message = <<" ", "g", "m", " ">>

\* the textarea holds whitespace only: the button is disabled
C30_WitnessBlank ==
    /\ isConnected
    /\ isExpanded
    /\ message = <<" ", "\n">>
    /\ SignDisabled

\* C24: no exception and no rejection of a call made by handleSend,
\* handleSign, handleConnect, handleDisconnect or fetchBalances leaves the
\* handler: every call that can fail is inside a try of the handler, so
\* the promise the handler returns resolves, whatever the call does.
C24_HandlersNeverReject == uncaught = {}

\* the adapter, the RPC node, signMessage and disconnect have each failed
\* in one session, and each handler has returned
C24_Witness ==
    /\ uncaught = {}
    /\ adapterReply.kind = "rejected"
    /\ status = "error"
    /\ fetchOutcome.kind = "returned"
    /\ fetchOutcome.native = "error"
    /\ state.error = "failed to fetch"
    /\ signReply.kind = "rejected"
    /\ signError = "Passkey prompt dismissed"
    /\ connectReply.kind = "rejected"
    /\ connectReply.call = "disconnect"
    /\ runs = <<>> /\ fetches = <<>> /\ signCalls = <<>> /\ connectCalls = <<>>

\* building the token transfer for an off-curve recipient has thrown, and
\* the handler has set the status and returned
C24_WitnessBuildThrows ==
    /\ uncaught = {}
    /\ token = "USDC"
    /\ recipient = "PdaC"
    /\ nsub = 1
    /\ status = "error"
    /\ adapterReply.kind = "none"
    /\ runs = <<>>

(***************************************************************************)
(* Properties of overlapping fetches and of the snapshot.                  *)
(***************************************************************************)
\* C25: a fetch that returns after a fetch started later than it has
\* returned leaves the snapshot as that later fetch wrote it.
C25_LatestFetchWins ==
    [][\A i \in 1..Len(fetches) :
          (FetchReturns(i) /\ fetches[i].superseded) => state' = state]_vars

\* the balance is null
IsNullBalance(balance) == balance = NullBalance

\* the step is the return of a fetch that read both balances
FetchSucceeds ==
    \E i \in 1..Len(fetches) : FetchReturns(i) /\ fetchOutcome'.native = "ok"

\* C26: in every state solBalance is null exactly when usdcBalance is; a
\* fetch that read the native balance writes both balances, isLoading false
\* and error null in the step in which it returns; and a step that changes
\* a balance is such a return or the reset for a null address.
C26_SnapshotWhole ==
    /\ [](IsNullBalance(state.solBalance) <=> IsNullBalance(state.usdcBalance))
    /\ [][FetchSucceeds =>
            /\ ~IsNullBalance(state'.solBalance)
            /\ ~IsNullBalance(state'.usdcBalance)
            /\ ~state'.isLoading
            /\ state'.error = NULL]_vars
    /\ [][(state'.solBalance # state.solBalance
             \/ state'.usdcBalance # state.usdcBalance) =>
            FetchSucceeds \/ state' = InitialBalanceState]_vars

\* a fetch has read both balances of the wallet and written them
C26_Witness ==
    /\ fetchOutcome.kind = "returned"
    /\ fetchOutcome.native = "ok"
    /\ fetchOutcome.token = "found"
    /\ state.solBalance.cls = "num"
    /\ state.usdcBalance.cls = "num"
    /\ ~state.isLoading
    /\ state.error = NULL
    /\ fetches = <<>>

\* C27: isLoading is true exactly while a fetch for a non-null address is
\* in flight; the start of such a fetch sets isLoading to true and error
\* to null.
C27_LoadingWhileInFlight ==
    /\ [](state.isLoading <=> fetches # <<>>)
    /\ [][Len(fetches') > Len(fetches) =>
            state'.isLoading /\ state'.error = NULL]_vars

(***************************************************************************)
(* Properties of the feedback of SendTokens and of the amounts it sends.   *)
(***************************************************************************)
\* C28: whenever no run of handleSend is under way, a status of success
\* goes with a signature and no error, and an error with a status that is
\* not success.
C28_FeedbackConsistent ==
    runs = <<>> =>
        /\ status = "success" => signature # NULL /\ error = NULL
        /\ error # NULL => status # "success"

\* C29: every transfer instruction handed to signAndSendTransaction moves
\* at least one base unit.
C29_AtLeastOneBaseUnit ==
    \A i \in Outstanding : TransferredUnits(runs[i]) >= 1

=============================================================================
